---- MODULE Spec2Model ----
(***************************************************************************)
(* rtbench, src/stat/main.c: the IRQ latency benchmark.                    *)
(*                                                                         *)
(* main() parses the command line, allocates the latency histogram and     *)
(* starts one realtime thread (rtask_entry -> rtask_main).  rtask_main     *)
(* opens the interrupt and register sessions, checks the device magic,     *)
(* arms the periodic IRQ generator, and loops on uirq_wait(), recording    *)
(* one latency sample per non-empty wake-up, until the sample count is     *)
(* reached, SIGINT is caught, or the wait fails.  main() joins the thread  *)
(* and prints the report.                                                  *)
(*                                                                         *)
(* uint32_t values are held as two 16-bit limbs <<lo, hi>> and uint64_t    *)
(* values as four, because the integers of the model checker are 32-bit    *)
(* signed and the program's arithmetic is 32-bit unsigned with one 64-bit  *)
(* intermediate product (line 370).                                        *)
(***************************************************************************)
EXTENDS Integers, Sequences, FiniteSets, TLC

(***************************************************************************)
(* Bounds of the model.                                                    *)
(***************************************************************************)
\* uirq_wait() returns normally at most MaxWaits times while SIGINT has not
\* been caught; after that the only return left to it is the hard error.
MaxWaits == 3

(***************************************************************************)
(* Unsigned 32-bit and 64-bit arithmetic on 16-bit limbs.                  *)
(***************************************************************************)
B16 == 65536

U32(hi, lo) == <<lo, hi>>

\* a small natural number (below 2^31) as a uint32_t
ToU32(n) == <<n % B16, n \div B16>>

\* the uint32_t values that fit the model checker's integers
FromU32(a) == a[2] * B16 + a[1]

IsU32(a) == a[1] \in 0..(B16 - 1) /\ a[2] \in 0..(B16 - 1)

Zero32 == U32(0, 0)

UINT32_MAX == U32(65535, 65535)

Lt32(a, b) == a[2] < b[2] \/ (a[2] = b[2] /\ a[1] < b[1])

\* a - b modulo 2^32
Sub32(a, b) ==
  LET l  == a[1] - b[1]
      br == IF l < 0 THEN 1 ELSE 0
  IN <<(l + B16) % B16, (a[2] - b[2] - br + 2 * B16) % B16>>

\* a + b modulo 2^32
Add32(a, b) ==
  LET l == a[1] + b[1]
  IN <<l % B16, (a[2] + b[2] + (l \div B16)) % B16>>

RECURSIVE Or16(_, _)
Or16(a, b) ==
  IF a = 0 THEN b
  ELSE IF b = 0 THEN a
  ELSE (IF a % 2 = 1 \/ b % 2 = 1 THEN 1 ELSE 0) + 2 * Or16(a \div 2, b \div 2)

\* a | b
Or32(a, b) == <<Or16(a[1], b[1]), Or16(a[2], b[2])>>

\* (uint64_t)a
Widen64(a) == <<a[1], a[2], 0, 0>>

\* (uint32_t)n for a uint64_t n: the low 32 bits
Trunc32(n) == <<n[1], n[2]>>

\* (uint64_t)a * (uint64_t)1000000, with 1000000 = 15 * 2^16 + 16960;
\* the product is below 2^52, so the 64-bit multiplication does not wrap
MulMicro(a) ==
  LET p0 == a[1] * 16960
      p1 == a[2] * 16960 + a[1] * 15 + (p0 \div B16)
      p2 == a[2] * 15 + (p1 \div B16)
  IN <<p0 % B16, p1 % B16, p2 % B16, p2 \div B16>>

\* byte j (0 = least significant) of a uint64_t
Byte64(n, j) == (n[(j \div 2) + 1] \div (IF j % 2 = 1 THEN 256 ELSE 1)) % 256

\* k * d <= th * 2^16 + tl, for a byte k and a uint32_t d
MulLe(k, d, th, tl) ==
  LET m0 == k * d[1]
      m1 == k * d[2] + (m0 \div B16)
  IN m1 < th \/ (m1 = th /\ (m0 % B16) <= tl)

\* one step of the bisection for a quotient byte: k with bit w added if
\* (k + w) * d still fits
Bs(d, th, tl, k, w) == IF MulLe(k + w, d, th, tl) THEN k + w ELSE k

\* the largest byte k with k * d <= th * 2^16 + tl, by bisection from bit 7
\* down to bit 0
Digit(d, th, tl) ==
  CHOOSE k \in
    { Bs(d, th, tl, k0, 1) : k0 \in
    { Bs(d, th, tl, k1, 2) : k1 \in
    { Bs(d, th, tl, k2, 4) : k2 \in
    { Bs(d, th, tl, k3, 8) : k3 \in
    { Bs(d, th, tl, k4, 16) : k4 \in
    { Bs(d, th, tl, k5, 32) : k5 \in
    { Bs(d, th, tl, k6, 64) : k6 \in
    { Bs(d, th, tl, 0, 128) } } } } } } } } : TRUE

\* one byte of schoolbook long division by d; acc = <<quotient bytes (most
\* significant first), remainder high limb, remainder low limb>>
DivByte(d, acc, byte) ==
  CHOOSE r \in
    { LET m0 == t[3] * d[1]
          m1 == t[3] * d[2] + (m0 \div B16)
          l  == t[2] - (m0 % B16)
          br == IF l < 0 THEN 1 ELSE 0
      IN <<Append(acc[1], t[3]), t[1] - m1 - br, (l + B16) % B16>> :
      t \in { <<u[1], u[2], Digit(d, u[1], u[2])>> :
              u \in { <<acc[2] * 256 + (acc[3] \div 256),
                        (acc[3] % 256) * 256 + byte>> } } } : TRUE

RECURSIVE DivLoop(_, _, _, _)
DivLoop(n, d, j, acc) ==
  IF j < 0 THEN acc
  ELSE CHOOSE r \in { DivLoop(n, d, j - 1, a) :
                      a \in { DivByte(d, acc, Byte64(n, j)) } } : TRUE

\* n / d for a uint64_t n and a nonzero uint32_t d (C's unsigned division)
DivU64(n, d) ==
  CHOOSE r \in
    { <<q[1][8] + 256 * q[1][7], q[1][6] + 256 * q[1][5],
        q[1][4] + 256 * q[1][3], q[1][2] + 256 * q[1][1]>> :
      q \in { DivLoop(nv, dv, 7, <<(<<>>), 0, 0>>) : nv \in {n}, dv \in {d} } } : TRUE

\* a / b for uint32_t a and nonzero uint32_t b
Div32(a, b) == Trunc32(DivU64(Widen64(a), b))

(***************************************************************************)
(* Program constants.                                                      *)
(***************************************************************************)
LAT_MAX_US == 1000000
LAT_RES_US == 1
LAT_MAX_COUNT == LAT_MAX_US \div LAT_RES_US

REG_BAR == 1
REG_CTL == 0
REG_MAGIC == 12
REG_FCLK == 16
REG_START == 20
REG_NOW == 24

\* 0xbadcafee, the value rtask_main compares REG_MAGIC with
MAGIC == U32(47836, 45038)

\* (1 << 31), the start bit of REG_CTL
CTL_START == U32(32768, 0)

\* (1 << 31) | (1 << 9), the interrupt enables of bar0 control register 0
EBONE_IRQ_ENABLE == U32(32768, 512)

(***************************************************************************)
(* Inputs: the command line and what the device and the libraries answer.  *)
(***************************************************************************)
\* -freq values (get_num accepts any uint32_t, 0 included)
FreqValues == {U32(0, 0), U32(0, 1), U32(0, 1000), U32(0, 2000)}

\* -count values; 0 means no limit
CountValues == {U32(0, 0), U32(0, 1), U32(0, 2)}

\* what REG_MAGIC can read
MagicValues == {MAGIC, U32(4660, 22136)}

\* what REG_FCLK can read: 0, 1 Hz, 1 kHz, 1 MHz, 125 MHz
FclkValues ==
  {U32(0, 0), U32(0, 1), U32(0, 1000), U32(15, 16960), U32(1907, 22848)}

\* what (REG_START, REG_NOW) can read at one sample
TickPairs ==
  { <<U32(0, 0), U32(7, 41248)>>,       \* 500000 ticks
    <<U32(0, 0), U32(0, 1)>>,           \* 1 tick
    <<UINT32_MAX, U32(0, 0)>>,          \* 1 tick, the counter wrapped in between
    <<U32(0, 0), U32(0, 4295)>> }       \* 4295 ticks

\* what bar0 control register 0 can read
Bar0Values == {U32(0, 0)}

\* a nonzero interrupt mask (bit 1, the source enabled by uirq_set_mask)
IRQ_MASK == U32(0, 2)

\* what an uninitialized size_t of main's frame can hold
Indeterminate == {0, 7}

(***************************************************************************)
(* State.                                                                  *)
(***************************************************************************)
VARIABLES
  proc,          \* the process: "run", "sigfpe", "sigint" (killed), "exited"
  main_pc,       \* position of main()
  pc,            \* position of the realtime thread (rtask_entry, rtask_main)
  cmd,           \* cmdline_t: [irq_fgen, irq_count]
  lat_hist,      \* arg.lat_hist: the nonzero buckets, index |-> count
  irq_count,     \* arg.irq_count
  irq_missed,    \* arg.irq_missed
  rtask_err,     \* rtask.err
  main_err,      \* err of main(), the exit code
  err,           \* err of rtask_main
  irq_fclk,      \* irq_fclk of rtask_main
  mask,          \* mask of rtask_main
  x, xx, xxx,    \* the scratch registers of rtask_main
  is_sigint,     \* the volatile flag written by on_sigint
  sig_handler,   \* disposition of SIGINT: "default" or "on_sigint"
  io_log,        \* session opens/closes, register writes, MAGIC and FCLK reads
  n_waits,       \* how many times uirq_wait returned
  sample_reads,  \* how many times REG_START and REG_NOW were read
  exit_path,     \* why the thread left for its cleanup labels or its end
  as_waits,      \* returns of uirq_wait observed while is_sigint was set
  as_samples,    \* samples recorded while is_sigint was set
  report         \* what main() printed: empty, or the one report

vars == <<proc, main_pc, pc, cmd, lat_hist, irq_count, irq_missed, rtask_err,
          main_err, err, irq_fclk, mask, x, xx, xxx, is_sigint, sig_handler,
          io_log, n_waits, sample_reads, exit_path, as_waits, as_samples, report>>

\* what rtask_main owns
task_vars == <<err, irq_fclk, mask, x, xx, xxx>>
\* what arg points to
arg_vars == <<lat_hist, irq_count, irq_missed>>
\* what main() owns
main_vars == <<main_pc, cmd, main_err, report>>
\* the observers of the cancellation
as_vars == <<as_waits, as_samples>>
\* the counters of the loop's input
in_vars == <<n_waits, sample_reads>>

(***************************************************************************)
(* The histogram.                                                          *)
(***************************************************************************)
EmptyHist == [i \in {} |-> 0]

\* arg.lat_hist[i]
Hist(h, i) == IF i \in DOMAIN h THEN h[i] ELSE 0

\* ++arg.lat_hist[i]
HistInc(h, i) ==
  IF i \in DOMAIN h THEN [h EXCEPT ![i] = @ + 1] ELSE h @@ (i :> 1)

RECURSIVE SumOver(_, _)
SumOver(h, S) ==
  IF S = {} THEN 0
  ELSE LET i == CHOOSE j \in S : TRUE IN h[i] + SumOver(h, S \ {i})

\* the number of samples the histogram holds
HistTotal(h) == SumOver(h, DOMAIN h)

(***************************************************************************)
(* The latency computation of rtask_main, lines 365-375.                   *)
(***************************************************************************)
\* lines 365-366: now - start, "beware the underflow"
Elapsed(start, now) ==
  IF Lt32(now, start) THEN Add32(Sub32(UINT32_MAX, start), now)
  ELSE Sub32(now, start)

\* line 370: (uint32_t)(((uint64_t)xxx * 1000000) / (uint64_t)irq_fclk)
ToMicros(ticks, fclk) == Trunc32(DivU64(MulMicro(ticks), fclk))

\* line 374 with <= in place of <
InRange_Inclusive(us) == ~Lt32(ToU32(LAT_MAX_COUNT), us)

\* line 374: xxx < LAT_MAX_COUNT
InRange(us) == Lt32(us, ToU32(LAT_MAX_COUNT))

(***************************************************************************)
(* Initial state: main() has been entered, nothing is initialized.         *)
(***************************************************************************)
Init ==
  /\ proc = "run"
  /\ main_pc = "init"
  /\ pc = "idle"
  /\ cmd = [irq_fgen |-> Zero32, irq_count |-> Zero32]
  /\ lat_hist = EmptyHist
  /\ irq_count \in Indeterminate
  /\ irq_missed \in Indeterminate
  /\ rtask_err \in Indeterminate
  /\ main_err = -1
  /\ err = -1
  /\ irq_fclk = Zero32
  /\ mask = Zero32
  /\ x = Zero32
  /\ xx = Zero32
  /\ xxx = Zero32
  /\ is_sigint = 0
  /\ sig_handler = "default"
  /\ io_log = <<>>
  /\ n_waits = 0
  /\ sample_reads = 0
  /\ exit_path = "none"
  /\ as_waits = 0
  /\ as_samples = 0
  /\ report = <<>>

(***************************************************************************)
(* main().                                                                 *)
(***************************************************************************)
\* lines 413-422: get_cmdline, malloc, clear the histogram, irq_count = 0
MainInit ==
  /\ proc = "run" /\ main_pc = "init"
  /\ \/ \E fg \in FreqValues, cnt \in CountValues :
          /\ cmd' = [irq_fgen |-> fg, irq_count |-> cnt]
          /\ lat_hist' = EmptyHist
          /\ irq_count' = 0
          /\ main_pc' = "start"
          /\ UNCHANGED proc
     \/ \* get_cmdline or malloc failed: on_error_0 / on_error_1, return -1
        /\ main_pc' = "done"
        /\ proc' = "exited"
        /\ UNCHANGED <<cmd, lat_hist, irq_count>>
  /\ UNCHANGED <<pc, irq_missed, rtask_err, main_err, task_vars, is_sigint,
                 sig_handler, io_log, in_vars, exit_path, as_vars, report>>

\* line 426, rtask_start: pthread_create
MainStart ==
  /\ proc = "run" /\ main_pc = "start"
  /\ main_pc' = "join"
  /\ pc' = "entry"
  /\ UNCHANGED <<proc, cmd, arg_vars, rtask_err, main_err, task_vars, is_sigint,
                 sig_handler, io_log, in_vars, exit_path, as_vars, report>>

\* line 427 without the pthread_join of line 136
MainJoin_NoJoin ==
  /\ proc = "run" /\ main_pc = "join"
  /\ main_err' = rtask_err
  /\ main_pc' = "report"
  /\ UNCHANGED <<proc, pc, cmd, arg_vars, rtask_err, task_vars, is_sigint,
                 sig_handler, io_log, in_vars, exit_path, as_vars, report>>

\* line 427, rtask_wait: pthread_join, then err = rtask->err
MainJoin ==
  /\ proc = "run" /\ main_pc = "join"
  /\ pc = "exited"
  /\ main_err' = rtask_err
  /\ main_pc' = "report"
  /\ UNCHANGED <<proc, pc, cmd, arg_vars, rtask_err, task_vars, is_sigint,
                 sig_handler, io_log, in_vars, exit_path, as_vars, report>>

\* lines 431-438 with the test of line 428 active: if (err) goto on_error_1
MainReport_SkipOnError ==
  /\ proc = "run" /\ main_pc = "report"
  /\ report' = IF main_err # 0
               THEN report
               ELSE <<[irq_count |-> irq_count, irq_missed |-> irq_missed,
                       buckets |-> lat_hist]>>
  /\ main_pc' = "return"
  /\ UNCHANGED <<proc, pc, cmd, arg_vars, rtask_err, main_err, task_vars,
                 is_sigint, sig_handler, io_log, in_vars, exit_path, as_vars>>

\* lines 431-438: the two summary lines and one line per nonzero bucket
MainReport ==
  /\ proc = "run" /\ main_pc = "report"
  /\ report' = <<[irq_count |-> irq_count, irq_missed |-> irq_missed,
                  buckets |-> lat_hist]>>
  /\ main_pc' = "return"
  /\ UNCHANGED <<proc, pc, cmd, arg_vars, rtask_err, main_err, task_vars,
                 is_sigint, sig_handler, io_log, in_vars, exit_path, as_vars>>

\* lines 440-443: free, return err
MainReturn ==
  /\ proc = "run" /\ main_pc = "return"
  /\ main_pc' = "done"
  /\ proc' = "exited"
  /\ UNCHANGED <<pc, cmd, arg_vars, rtask_err, main_err, task_vars, is_sigint,
                 sig_handler, io_log, in_vars, exit_path, as_vars, report>>

(***************************************************************************)
(* SIGINT.                                                                 *)
(***************************************************************************)
\* lines 226-229 once signal() installed on_sigint; before that the default
\* disposition terminates the process
on_sigint ==
  /\ proc = "run"
  /\ IF sig_handler = "on_sigint"
     THEN is_sigint' = 1 /\ UNCHANGED proc
     ELSE proc' = "sigint" /\ UNCHANGED is_sigint
  /\ UNCHANGED <<main_vars, pc, arg_vars, rtask_err, task_vars, sig_handler,
                 io_log, in_vars, exit_path, as_vars>>

(***************************************************************************)
(* The realtime thread: rtask_entry.                                       *)
(***************************************************************************)
\* rtask_entry without the assignment of line 114
rtask_entry_NoErrInit ==
  /\ proc = "run" /\ pc = "entry"
  /\ \/ pc' = "enable_irq" /\ UNCHANGED exit_path
     \/ pc' = "exited" /\ exit_path' = "sched"
  /\ UNCHANGED <<proc, main_vars, arg_vars, rtask_err, task_vars, is_sigint,
                 sig_handler, io_log, in_vars, as_vars>>

\* lines 114-119: err = -1, then SCHED_FIFO at the maximum priority; on
\* failure the thread returns without calling rtask_main
rtask_entry ==
  /\ proc = "run" /\ pc = "entry"
  /\ rtask_err' = -1
  /\ \/ pc' = "enable_irq" /\ UNCHANGED exit_path
     \/ pc' = "exited" /\ exit_path' = "sched"
  /\ UNCHANGED <<proc, main_vars, arg_vars, task_vars, is_sigint, sig_handler,
                 io_log, in_vars, as_vars>>

(***************************************************************************)
(* rtask_main: initialization.                                             *)
(***************************************************************************)
\* the cleanup label a failure jumps to, with err still -1
Fail(label, why) ==
  /\ pc' = label
  /\ exit_path' = why

\* lines 271-275 and 231-254: enable_ebone_slave_interrupt opens bar0, sets
\* the two interrupt enable bits of control register 0 and closes bar0
EnableIrq ==
  /\ proc = "run" /\ pc = "enable_irq"
  /\ \/ \E v \in Bar0Values :
          /\ io_log' = io_log \o << <<"open", "bar0">>,
                                    <<"write", 0, 0, Or32(v, EBONE_IRQ_ENABLE)>>,
                                    <<"close", "bar0">> >>
          /\ pc' = "init_lib"
          /\ UNCHANGED exit_path
     \/ Fail("return", "enable_irq") /\ UNCHANGED io_log
  /\ UNCHANGED <<proc, main_vars, arg_vars, rtask_err, task_vars, is_sigint,
                 sig_handler, in_vars, as_vars>>

\* lines 277-281: uirq_init_lib
InitLib ==
  /\ proc = "run" /\ pc = "init_lib"
  /\ \/ pc' = "uirq_open" /\ UNCHANGED exit_path
     \/ Fail("return", "init_lib")
  /\ UNCHANGED <<proc, main_vars, arg_vars, rtask_err, task_vars, is_sigint,
                 sig_handler, io_log, in_vars, as_vars>>

\* lines 283-287: uirq_open
UirqOpen ==
  /\ proc = "run" /\ pc = "uirq_open"
  /\ \/ /\ io_log' = Append(io_log, <<"open", "uirq">>)
        /\ pc' = "set_mask"
        /\ UNCHANGED exit_path
     \/ Fail("return", "uirq_open") /\ UNCHANGED io_log
  /\ UNCHANGED <<proc, main_vars, arg_vars, rtask_err, task_vars, is_sigint,
                 sig_handler, in_vars, as_vars>>

\* lines 289-293: uirq_set_mask(&uirq, 1 << 1, 1)
SetMask ==
  /\ proc = "run" /\ pc = "set_mask"
  /\ \/ pc' = "signal" /\ UNCHANGED exit_path
     \/ Fail("on_error_2", "set_mask")
  /\ UNCHANGED <<proc, main_vars, arg_vars, rtask_err, task_vars, is_sigint,
                 sig_handler, io_log, in_vars, as_vars>>

\* line 295 without the signal() call of line 296
InstallSigint_NoHandler ==
  /\ proc = "run" /\ pc = "signal"
  /\ is_sigint' = 0
  /\ pc' = "epci_open"
  /\ UNCHANGED <<proc, main_vars, arg_vars, rtask_err, task_vars, sig_handler,
                 io_log, in_vars, exit_path, as_vars>>

\* lines 295-296: is_sigint = 0; signal(SIGINT, on_sigint)
InstallSigint ==
  /\ proc = "run" /\ pc = "signal"
  /\ is_sigint' = 0
  /\ sig_handler' = "on_sigint"
  /\ pc' = "epci_open"
  /\ UNCHANGED <<proc, main_vars, arg_vars, rtask_err, task_vars, io_log,
                 in_vars, exit_path, as_vars>>

\* lines 298-303 with the failure sent to on_error_3 instead of on_error_2
EpciOpen_WrongLabel ==
  /\ proc = "run" /\ pc = "epci_open"
  /\ \/ /\ io_log' = Append(io_log, <<"open", "epci">>)
        /\ pc' = "magic"
        /\ UNCHANGED exit_path
     \/ Fail("on_error_3", "epci_open") /\ UNCHANGED io_log
  /\ UNCHANGED <<proc, main_vars, arg_vars, rtask_err, task_vars, is_sigint,
                 sig_handler, in_vars, as_vars>>

\* lines 298-303: epci_open("10ee:eb01", NULL, REG_BAR)
EpciOpen ==
  /\ proc = "run" /\ pc = "epci_open"
  /\ \/ /\ io_log' = Append(io_log, <<"open", "epci">>)
        /\ pc' = "magic"
        /\ UNCHANGED exit_path
     \/ Fail("on_error_2", "epci_open") /\ UNCHANGED io_log
  /\ UNCHANGED <<proc, main_vars, arg_vars, rtask_err, task_vars, is_sigint,
                 sig_handler, in_vars, as_vars>>

\* lines 307-312: reg_read_magic, compare with 0xbadcafee
CheckMagic ==
  /\ proc = "run" /\ pc = "magic"
  /\ \E m \in MagicValues :
       /\ x' = m
       /\ io_log' = Append(io_log, <<"read", REG_BAR, REG_MAGIC, m>>)
       /\ IF m # MAGIC
          THEN Fail("on_error_3", "magic")
          ELSE pc' = "fclk" /\ UNCHANGED exit_path
  /\ UNCHANGED <<proc, main_vars, arg_vars, rtask_err, err, irq_fclk, mask, xx,
                 xxx, is_sigint, sig_handler, in_vars, as_vars>>

\* lines 336-342 without the test of line 341 (x == 0)
ComputeDivider_NoCheck ==
  /\ proc = "run" /\ pc = "fclk"
  /\ \E f \in FclkValues :
       /\ irq_fclk' = f
       /\ io_log' = Append(io_log, <<"read", REG_BAR, REG_FCLK, f>>)
       /\ IF cmd.irq_fgen = Zero32
          THEN \/ /\ proc' = "sigfpe"
                  /\ UNCHANGED <<x, pc, exit_path>>
               \/ /\ x' = Zero32
                  /\ pc' = "arm"
                  /\ UNCHANGED <<proc, exit_path>>
          ELSE /\ x' = Div32(f, cmd.irq_fgen)
               /\ pc' = "arm"
               /\ UNCHANGED <<proc, exit_path>>
  /\ UNCHANGED <<main_vars, arg_vars, rtask_err, err, mask, xx, xxx, is_sigint,
                 sig_handler, in_vars, as_vars>>

\* lines 336-342: reg_read_fclk, x = irq_fclk / cmd->irq_fgen, x == 0 is an
\* error.  With -freq 0 the division is by zero: the targets of the Makefile
\* raise SIGFPE (x86 #DE, libgcc's __aeabi_idiv0 on ARM without a divider),
\* an ARM core with a hardware divider yields 0 without a trap.
ComputeDivider ==
  /\ proc = "run" /\ pc = "fclk"
  /\ \E f \in FclkValues :
       /\ irq_fclk' = f
       /\ io_log' = Append(io_log, <<"read", REG_BAR, REG_FCLK, f>>)
       /\ IF cmd.irq_fgen = Zero32
          THEN \/ /\ proc' = "sigfpe"
                  /\ UNCHANGED <<x, pc, exit_path>>
               \/ /\ x' = Zero32
                  /\ Fail("on_error_3", "underflow")
                  /\ UNCHANGED proc
          ELSE /\ x' = Div32(f, cmd.irq_fgen)
               /\ IF x' = Zero32
                  THEN Fail("on_error_3", "underflow")
                  ELSE pc' = "arm" /\ UNCHANGED exit_path
               /\ UNCHANGED proc
  /\ UNCHANGED <<main_vars, arg_vars, rtask_err, err, mask, xx, xxx, is_sigint,
                 sig_handler, in_vars, as_vars>>

\* lines 344-347: reg_write_ctl((1 << 31) | x), irq_missed = 0, irq_count = 0
Arm ==
  /\ proc = "run" /\ pc = "arm"
  /\ io_log' = Append(io_log, <<"write", REG_BAR, REG_CTL, Or32(CTL_START, x)>>)
  /\ irq_missed' = 0
  /\ irq_count' = 0
  /\ pc' = "wait"
  /\ UNCHANGED <<proc, main_vars, lat_hist, rtask_err, task_vars, is_sigint,
                 sig_handler, in_vars, exit_path, as_vars>>

(***************************************************************************)
(* rtask_main: the measurement loop.                                       *)
(***************************************************************************)
\* lines 349-358: uirq_wait(&uirq, 1000, &mask) returns -1 (hard error), or
\* an empty mask (timeout, untracked source), or a nonzero mask
Wait ==
  /\ proc = "run" /\ pc = "wait"
  /\ n_waits' = n_waits + 1
  /\ as_waits' = IF is_sigint = 1 THEN as_waits + 1 ELSE as_waits
  /\ \/ /\ err' = -1
        /\ Fail("on_error_3", "wait_error")
        /\ UNCHANGED mask
     \/ /\ irq_count < MaxWaits \/ (is_sigint = 1 /\ as_waits = 0)
        /\ \E m \in {Zero32, IRQ_MASK} :
             /\ mask' = m
             /\ pc' = IF m = Zero32 THEN "skip_irq" ELSE "sample"
        /\ err' = 0
        /\ UNCHANGED exit_path
  /\ UNCHANGED <<proc, main_vars, arg_vars, rtask_err, irq_fclk, x, xx, xxx,
                 is_sigint, sig_handler, io_log, sample_reads, as_samples>>

\* lines 363-375: read REG_START then REG_NOW, elapsed ticks, microseconds,
\* then one bucket or the missed counter.  A zero irq_fclk divides by zero.
Sample ==
  /\ proc = "run" /\ pc = "sample"
  /\ \E t \in TickPairs :
       /\ x' = t[1]
       /\ xx' = t[2]
       /\ sample_reads' = sample_reads + 1
       /\ IF irq_fclk = Zero32
          THEN /\ proc' = "sigfpe"
               /\ UNCHANGED <<pc, xxx, lat_hist, irq_missed, as_samples>>
          ELSE /\ xxx' = ToMicros(Elapsed(t[1], t[2]), irq_fclk)
               /\ IF InRange(xxx')
                  THEN /\ lat_hist' = HistInc(lat_hist, FromU32(xxx'))
                       /\ UNCHANGED irq_missed
                  ELSE /\ irq_missed' = irq_missed + 1
                       /\ UNCHANGED lat_hist
               /\ as_samples' = IF is_sigint = 1 THEN as_samples + 1 ELSE as_samples
               /\ pc' = "skip_irq"
               /\ UNCHANGED proc
  /\ UNCHANGED <<main_vars, irq_count, rtask_err, err, irq_fclk, mask, is_sigint,
                 sig_handler, io_log, n_waits, exit_path, as_waits>>

\* line 385 with the flag never looked at
CheckSigint_Ignore ==
  /\ proc = "run" /\ pc = "skip_irq"
  /\ pc' = "check_count"
  /\ UNCHANGED <<proc, main_vars, arg_vars, rtask_err, task_vars, is_sigint,
                 sig_handler, io_log, in_vars, exit_path, as_vars>>

\* line 385 with the skip_irq label of line 384 placed after it: an empty
\* wake-up jumps over the test of the flag
CheckSigint_AfterLabel ==
  /\ proc = "run" /\ pc = "skip_irq"
  /\ IF is_sigint # 0 /\ mask # Zero32
     THEN err' = 0 /\ Fail("on_error_3", "sigint")
     ELSE pc' = "check_count" /\ UNCHANGED <<err, exit_path>>
  /\ UNCHANGED <<proc, main_vars, arg_vars, rtask_err, irq_fclk, mask, x, xx,
                 xxx, is_sigint, sig_handler, io_log, in_vars, as_vars>>

\* line 385 (and 389): if (is_sigint) break
CheckSigint ==
  /\ proc = "run" /\ pc = "skip_irq"
  /\ IF is_sigint # 0
     THEN err' = 0 /\ Fail("on_error_3", "sigint")
     ELSE pc' = "check_count" /\ UNCHANGED <<err, exit_path>>
  /\ UNCHANGED <<proc, main_vars, arg_vars, rtask_err, irq_fclk, mask, x, xx,
                 xxx, is_sigint, sig_handler, io_log, in_vars, as_vars>>

\* line 386 (and 389): break when irq_count reached cmd->irq_count; else the
\* loop's increment ++arg->irq_count of line 347
CheckCount ==
  /\ proc = "run" /\ pc = "check_count"
  /\ IF Lt32(Zero32, cmd.irq_count) /\ ToU32(irq_count) = cmd.irq_count
     THEN /\ err' = 0
          /\ Fail("on_error_3", "count")
          /\ UNCHANGED irq_count
     ELSE /\ irq_count' = irq_count + 1
          /\ pc' = "wait"
          /\ UNCHANGED <<err, exit_path>>
  /\ UNCHANGED <<proc, main_vars, lat_hist, irq_missed, rtask_err, irq_fclk,
                 mask, x, xx, xxx, is_sigint, sig_handler, io_log, in_vars,
                 as_vars>>

(***************************************************************************)
(* rtask_main: the cleanup labels.                                         *)
(***************************************************************************)
\* on_error_3 without the write of line 392
Disarm_NoWrite ==
  /\ proc = "run" /\ pc = "on_error_3"
  /\ pc' = "epci_close"
  /\ UNCHANGED <<proc, main_vars, arg_vars, rtask_err, task_vars, is_sigint,
                 sig_handler, io_log, in_vars, exit_path, as_vars>>

\* line 392, on_error_3: reg_write_ctl(epci, 0)
Disarm ==
  /\ proc = "run" /\ pc = "on_error_3"
  /\ io_log' = Append(io_log, <<"write", REG_BAR, REG_CTL, Zero32>>)
  /\ pc' = "epci_close"
  /\ UNCHANGED <<proc, main_vars, arg_vars, rtask_err, task_vars, is_sigint,
                 sig_handler, in_vars, exit_path, as_vars>>

\* lines 393-395 with the two closes exchanged
EpciClose_UirqFirst ==
  /\ proc = "run" /\ pc = "epci_close"
  /\ io_log' = io_log \o << <<"close", "uirq">>, <<"close", "epci">> >>
  /\ pc' = "return"
  /\ UNCHANGED <<proc, main_vars, arg_vars, rtask_err, task_vars, is_sigint,
                 sig_handler, in_vars, exit_path, as_vars>>

\* line 393: epci_close(epci)
EpciClose ==
  /\ proc = "run" /\ pc = "epci_close"
  /\ io_log' = Append(io_log, <<"close", "epci">>)
  /\ pc' = "on_error_2"
  /\ UNCHANGED <<proc, main_vars, arg_vars, rtask_err, task_vars, is_sigint,
                 sig_handler, in_vars, exit_path, as_vars>>

\* line 395, on_error_2: uirq_close(&uirq)
UirqClose ==
  /\ proc = "run" /\ pc = "on_error_2"
  /\ io_log' = Append(io_log, <<"close", "uirq">>)
  /\ pc' = "return"
  /\ UNCHANGED <<proc, main_vars, arg_vars, rtask_err, task_vars, is_sigint,
                 sig_handler, in_vars, exit_path, as_vars>>

\* lines 396-399 and 119-122: return err; rtask->err = that; thread ends
Return ==
  /\ proc = "run" /\ pc = "return"
  /\ rtask_err' = err
  /\ pc' = "exited"
  /\ UNCHANGED <<proc, main_vars, arg_vars, task_vars, is_sigint, sig_handler,
                 io_log, in_vars, exit_path, as_vars>>

(***************************************************************************)
(* Specifications.                                                         *)
(***************************************************************************)
TaskNext ==
  \/ rtask_entry
  \/ EnableIrq
  \/ InitLib
  \/ UirqOpen
  \/ SetMask
  \/ InstallSigint
  \/ EpciOpen
  \/ CheckMagic
  \/ ComputeDivider
  \/ Arm
  \/ Wait
  \/ Sample
  \/ CheckSigint
  \/ CheckCount
  \/ Disarm
  \/ EpciClose
  \/ UirqClose
  \/ Return

MainNext ==
  \/ MainInit
  \/ MainStart
  \/ MainJoin
  \/ MainReport
  \/ MainReturn

Next == MainNext \/ TaskNext \/ on_sigint

Spec == Init /\ [][Next]_vars

\* the thread always gets to run its next statement (SCHED_FIFO at the
\* maximum priority) and uirq_wait returns within its 1000 ms timeout
FairSpec == Spec /\ WF_vars(TaskNext)

(***************************************************************************)
(* Vocabulary of the properties.                                           *)
(***************************************************************************)
\* a write of REG_CTL with the start bit set
IsArm(e) == e[1] = "write" /\ e[2] = REG_BAR /\ e[3] = REG_CTL /\ e[4][2] >= 32768

\* a write of REG_CTL with the value 0
IsDisarm(e) == e[1] = "write" /\ e[2] = REG_BAR /\ e[3] = REG_CTL /\ e[4] = Zero32

IsEpciClose(e) == e[1] = "close" /\ e[2] = "epci"

IsMagicRead(e) == e[1] = "read" /\ e[2] = REG_BAR /\ e[3] = REG_MAGIC

IsFclkRead(e) == e[1] = "read" /\ e[2] = REG_BAR /\ e[3] = REG_FCLK

Armed == \E i \in DOMAIN io_log : IsArm(io_log[i])

InLoop == pc \in {"wait", "sample", "skip_irq", "check_count"}

\* the task went through the measurement loop and left it
LoopLeft == exit_path \in {"count", "sigint", "wait_error"}

\* the sessions of rtask_main: the interrupt session, the register session
Sessions == {"uirq", "epci"}

\* where the log has the successful open of session s
Opens(s) == {i \in DOMAIN io_log : io_log[i][1] = "open" /\ io_log[i][2] = s}

\* where the log has the close of session s
Closes(s) == {i \in DOMAIN io_log : io_log[i][1] = "close" /\ io_log[i][2] = s}

\* rtask_main has returned
Returned == pc \in {"return", "exited"} /\ exit_path \notin {"none", "sched"}

\* where the log has the write of REG_CTL = 0
Disarms == {i \in DOMAIN io_log : IsDisarm(io_log[i])}

\* the loop was left by one of its two breaks
LoopBroken == exit_path \in {"count", "sigint"}

\* the generator runs: the start write is in the log, REG_CTL = 0 is not yet
Running == Armed /\ Disarms = {}

\* the thread ended before the for loop of line 347
EndedBeforeLoop ==
  exit_path \in {"sched", "enable_irq", "init_lib", "uirq_open", "set_mask",
                 "epci_open", "magic", "underflow"}

\* a uint64_t is at least LAT_MAX_US
Ge64Max(n) == n[3] # 0 \/ n[4] # 0 \/ ~InRange(Trunc32(n))

\* the bucket a microsecond value selects, -1 for the missed counter
Outcome(us) == IF InRange(us) THEN FromU32(us) ELSE -1

(***************************************************************************)
(* C1.  Once REG_CTL has been written with the start bit, every exit of    *)
(* rtask_main (count reached, SIGINT seen, uirq_wait failed) writes        *)
(* REG_CTL = 0 before epci_close and before the thread ends, and no write  *)
(* with the start bit follows that write.                                  *)
(***************************************************************************)
C1_DisarmOnEveryExit ==
  \A i \in DOMAIN io_log :
    IsArm(io_log[i]) =>
      /\ \A j \in DOMAIN io_log :
           (j > i /\ IsEpciClose(io_log[j])) =>
             \E k \in (i + 1)..(j - 1) : IsDisarm(io_log[k])
      /\ pc \in {"epci_close", "on_error_2", "return", "exited"} =>
           \E k \in DOMAIN io_log : k > i /\ IsDisarm(io_log[k])
      /\ \A k \in DOMAIN io_log :
           (k > i /\ IsDisarm(io_log[k])) =>
             \A m \in DOMAIN io_log : m > k => ~IsArm(io_log[m])

C1_Witness ==
  /\ pc = "exited"
  /\ Armed
  /\ exit_path = "wait_error"
  /\ \E k \in DOMAIN io_log : IsDisarm(io_log[k])

(***************************************************************************)
(* C2.  When REG_MAGIC reads a value other than 0xbadcafee, no register    *)
(* write is issued after that read.                                        *)
(***************************************************************************)
C2_NoWriteAfterBadMagic ==
  \A i \in DOMAIN io_log :
    (IsMagicRead(io_log[i]) /\ io_log[i][4] # MAGIC) =>
      \A j \in DOMAIN io_log : j > i => io_log[j][1] # "write"

(***************************************************************************)
(* C3.  With -count N > 0, no SIGINT and every uirq_wait returning a       *)
(* nonzero mask, the loop exits after exactly N iterations, with N samples *)
(* recorded (buckets + irq_missed) and irq_count = N.                      *)
(***************************************************************************)
C3_ExactlyNSamples ==
  (exit_path = "count" /\ is_sigint = 0 /\ sample_reads = n_waits) =>
    /\ n_waits = FromU32(cmd.irq_count)
    /\ HistTotal(lat_hist) + irq_missed = FromU32(cmd.irq_count)
    /\ irq_count = FromU32(cmd.irq_count)

(***************************************************************************)
(* C4.  As claimed: once on_sigint has set is_sigint, no bucket and no     *)
(* missed counter is incremented by any later step.                        *)
(***************************************************************************)
C4_NoSampleAfterSigint ==
  [][is_sigint = 1 =>
       /\ HistTotal(lat_hist') <= HistTotal(lat_hist)
       /\ irq_missed' <= irq_missed]_vars

(***************************************************************************)
(* C4, amended.  Once on_sigint has set is_sigint, the loop records at     *)
(* most one further sample: the one of the wake-up that was pending or in  *)
(* progress when the flag was set.                                         *)
(***************************************************************************)
C4_AtMostOneSampleAfterSigint == as_samples <= 1

C4_Witness ==
  /\ as_samples = 1
  /\ exit_path = "sigint"
  /\ pc = "exited"

(***************************************************************************)
(* C5.  Once is_sigint is set while the thread is in the measurement loop, *)
(* uirq_wait returns at most once more, whatever it returns and whatever   *)
(* -count is, and the thread then runs its cleanup and ends.               *)
(***************************************************************************)
C5_ExitWithinOneWait ==
  /\ [](as_waits <= 1)
  /\ (is_sigint = 1 /\ InLoop) ~> (pc = "exited")

C5_Witness ==
  /\ as_waits = 1
  /\ exit_path = "sigint"
  /\ cmd.irq_count = Zero32
  /\ pc = "exited"

(***************************************************************************)
(* C6.  When the loop was left, for whatever reason, the printed irq_count *)
(* is the number of samples recorded: the sum of the buckets plus          *)
(* irq_missed.                                                             *)
(***************************************************************************)
C6_CountEqualsSamples ==
  (report # <<>> /\ LoopLeft) =>
    report[1].irq_count = HistTotal(report[1].buckets) + report[1].irq_missed

(***************************************************************************)
(* C7.  A wake-up with an empty mask changes no bucket, not irq_missed,    *)
(* not irq_count, and reads neither REG_START nor REG_NOW.                 *)
(***************************************************************************)
C7_EmptyWakeupIsNoop ==
  [][(mask' = Zero32 /\ pc \in {"wait", "skip_irq", "check_count"}
                     /\ pc' \in {"wait", "skip_irq", "check_count", "on_error_3"})
       => UNCHANGED <<lat_hist, irq_missed, irq_count, sample_reads>>]_vars

(***************************************************************************)
(* C8.  For every REG_FCLK value and every -freq value, the arming step    *)
(* ends in the divider error (no start write, err = -1) exactly if         *)
(* FCLK / freq is 0, and otherwise writes REG_CTL with the start bit and   *)
(* the divider FCLK / freq.                                                *)
(***************************************************************************)
C8_UnderflowIffZeroDivider ==
  (\E i \in DOMAIN io_log : IsFclkRead(io_log[i])) =>
    LET underflow == exit_path = "underflow" /\ ~Armed /\ err = -1
        armed(v)  == pc = "arm" \/ \E i \in DOMAIN io_log :
                                      IsArm(io_log[i]) /\ io_log[i][4] = v
    IN /\ proc # "sigfpe"
       /\ IF cmd.irq_fgen = Zero32
          THEN underflow \/ Armed \/ pc = "arm"
          ELSE LET q == Div32(irq_fclk, cmd.irq_fgen)
               IN IF q = Zero32 THEN underflow
                  ELSE ~underflow /\ armed(Or32(CTL_START, q))

(***************************************************************************)
(* C9.  A sample whose latency floor(elapsed * 1000000 / irq_fclk) is at   *)
(* least 1000000 increments irq_missed and no bucket; a smaller latency    *)
(* increments the bucket of that latency and nothing else.                 *)
(***************************************************************************)
C9_MissedIffAtLeastMax ==
  [][(pc = "sample" /\ pc' = "skip_irq") =>
       LET us == DivU64(MulMicro(Elapsed(x', xx')), irq_fclk)
       IN IF Ge64Max(us)
          THEN irq_missed' = irq_missed + 1 /\ lat_hist' = lat_hist
          ELSE /\ lat_hist' = HistInc(lat_hist, FromU32(Trunc32(us)))
               /\ irq_missed' = irq_missed]_vars

(***************************************************************************)
(* C10.  The bucket (or missed outcome) of a sample depends only on        *)
(* (now - start) mod 2^32: a sample whose counter wrapped between          *)
(* REG_START and REG_NOW gets the outcome of the sample (0, now - start).  *)
(***************************************************************************)
C10_WrapSameBucket ==
  (pc = "skip_irq" /\ mask # Zero32) =>
    Outcome(xxx) = Outcome(ToMicros(Elapsed(Zero32, Sub32(xx, x)), irq_fclk))

(***************************************************************************)
(* C11.  When uirq_wait returns -1 the loop is left without another wait   *)
(* and without touching a bucket or irq_missed; the thread reports a       *)
(* failure, main() returns a nonzero code and still prints the buckets and *)
(* irq_missed as they were before the failing wait.  When the loop is left *)
(* by the count or by SIGINT, main() returns 0.                            *)
(***************************************************************************)
C11_WaitErrorKeepsResults ==
  /\ [][exit_path' = "wait_error" =>
         /\ lat_hist' = lat_hist
         /\ irq_missed' = irq_missed
         /\ exit_path = "wait_error" => n_waits' = n_waits]_vars
  /\ [](main_pc = "done" =>
         /\ exit_path = "wait_error" =>
              /\ rtask_err # 0
              /\ main_err # 0
              /\ report = <<[irq_count |-> irq_count,
                             irq_missed |-> irq_missed,
                             buckets |-> lat_hist]>>
         /\ exit_path \in {"count", "sigint"} => main_err = 0)

C11_Witness ==
  /\ main_pc = "done"
  /\ exit_path = "wait_error"
  /\ report # <<>>
  /\ HistTotal(lat_hist) > 0
  /\ irq_missed > 0

(***************************************************************************)
(* C12.  When pthread_setschedparam fails, the thread ends without calling *)
(* rtask_main: no session is opened, no register is read or written, the   *)
(* device is never armed, and rtask_wait returns a nonzero value.          *)
(***************************************************************************)
C12_SchedFailureRunsNothing ==
  exit_path = "sched" =>
    /\ pc = "exited"
    /\ io_log = <<>>
    /\ n_waits = 0 /\ sample_reads = 0
    /\ ~Armed
    /\ sig_handler = "default"
    /\ rtask_err # 0
    /\ main_pc \in {"report", "return", "done"} => main_err # 0

C12_Witness ==
  /\ exit_path = "sched"
  /\ main_pc = "done"
  /\ report # <<>>

(***************************************************************************)
(* C13.  On every return of rtask_main, each session that was opened       *)
(* (uirq_open, epci_open) has been closed exactly once; a session is never *)
(* closed without having been opened; and the sessions are closed in the   *)
(* reverse of the order they were opened in.                               *)
(***************************************************************************)
C13_SessionsClosedInReverse ==
  /\ \A s \in Sessions :
       /\ Cardinality(Opens(s)) <= 1
       /\ Cardinality(Closes(s)) <= Cardinality(Opens(s))
       /\ \A i \in Closes(s) : \E j \in Opens(s) : j < i
       /\ Returned => Cardinality(Closes(s)) = Cardinality(Opens(s))
  /\ \A s, t \in Sessions :
       \A i \in Opens(s), j \in Opens(t), k \in Closes(s), l \in Closes(t) :
         i < j => l < k

C13_Witness ==
  /\ pc = "exited"
  /\ exit_path = "magic"
  /\ Opens("uirq") # {} /\ Opens("epci") # {}
  /\ Closes("uirq") # {} /\ Closes("epci") # {}

(***************************************************************************)
(* C14.  main() reads rtask.err, the buckets, irq_count and irq_missed     *)
(* only once the thread has ended and has been joined: every step of       *)
(* main() that reads them is taken with the thread ended, and the thread   *)
(* writes none of them after its end.                                      *)
(***************************************************************************)
C14_ReadOnlyAfterJoin ==
  /\ [][/\ (main_pc \in {"join", "report"} /\ main_pc' # main_pc) =>
             pc = "exited"
        /\ pc = "exited" =>
             (pc' = "exited" /\ UNCHANGED <<arg_vars, rtask_err>>)]_vars
  /\ [](main_pc \in {"report", "return"} => pc = "exited")

C14_Witness ==
  /\ main_pc = "return"
  /\ report # <<>>
  /\ exit_path = "count"
  /\ HistTotal(report[1].buckets) > 0

(***************************************************************************)
(* C15.  As claimed: when the loop is left by the count or by SIGINT, the  *)
(* thread writes REG_CTL = 0, then closes the interrupt session, then      *)
(* closes the register session, and only then reports success.             *)
(***************************************************************************)
C15_DisarmUirqEpciSuccess ==
  LoopBroken =>
    /\ pc = "exited" =>
         /\ rtask_err = 0
         /\ \E d \in Disarms, u \in Closes("uirq"), e \in Closes("epci") :
              d < u /\ u < e
    /\ pc # "exited" => rtask_err # 0

(***************************************************************************)
(* C15, amended.  When the loop is left by the count or by SIGINT, the     *)
(* thread writes REG_CTL = 0, then closes the register session, then       *)
(* closes the interrupt session, and only then reports success.            *)
(***************************************************************************)
C15_DisarmEpciUirqSuccess ==
  LoopBroken =>
    /\ pc = "exited" =>
         /\ rtask_err = 0
         /\ \E d \in Disarms, e \in Closes("epci"), u \in Closes("uirq") :
              d < e /\ e < u
    /\ pc # "exited" => rtask_err # 0
    /\ \A e \in Closes("epci") : \E d \in Disarms : d < e
    /\ \A u \in Closes("uirq") : \E e \in Closes("epci") : e < u

C15_Witness ==
  /\ exit_path = "sigint"
  /\ pc = "exited"
  /\ rtask_err = 0
  /\ Closes("uirq") # {}

(***************************************************************************)
(* C16.  Every value written to REG_CTL by the arming step has bit 31 set, *)
(* bits 30..24 clear, and the divider FCLK / freq, whole, in bits 23..0.   *)
(***************************************************************************)
C16_DividerInLow24Bits ==
  \A i \in DOMAIN io_log :
    IsArm(io_log[i]) =>
      LET v == io_log[i][4]
      IN /\ v[2] >= 32768
         /\ v[2] - 32768 < 256
         /\ U32(v[2] % 256, v[1]) = Div32(irq_fclk, cmd.irq_fgen)

(***************************************************************************)
(* C17.  Every sample (a wake-up with a nonzero mask), whatever REG_START, *)
(* REG_NOW and the clock in use are, is processed without a fault and adds *)
(* 1 to exactly one counter: a bucket whose index is in 0..999999, or      *)
(* irq_missed; no other counter changes.  Hence after N samples the sum of *)
(* the buckets plus irq_missed is N.                                       *)
(***************************************************************************)
C17_OneCounterPerSample ==
  /\ [][(pc = "sample" /\ sample_reads' # sample_reads) =>
         /\ proc' = "run"
         /\ irq_count' = irq_count
         /\ \/ irq_missed' = irq_missed + 1 /\ lat_hist' = lat_hist
            \/ /\ irq_missed' = irq_missed
               /\ \E i \in DOMAIN lat_hist' :
                    /\ i \in 0..(LAT_MAX_COUNT - 1)
                    /\ lat_hist' = HistInc(lat_hist, i)]_vars
  /\ [](/\ \A i \in DOMAIN lat_hist : i \in 0..(LAT_MAX_COUNT - 1)
        /\ Armed => HistTotal(lat_hist) + irq_missed = sample_reads)

C17_Witness ==
  /\ pc = "skip_irq"
  /\ sample_reads = 3
  /\ irq_missed >= 1
  /\ Cardinality(DOMAIN lat_hist) >= 2

(***************************************************************************)
(* C18.  on_sigint is installed and is_sigint cleared before REG_CTL is    *)
(* written with the start bit, on every path.  So whenever the generator   *)
(* runs, a SIGINT sets is_sigint and does not kill the process, and once   *)
(* the handler is installed is_sigint never goes from 1 back to 0.         *)
(***************************************************************************)
C18_HandlerBeforeArm ==
  /\ [](pc = "arm" => (sig_handler = "on_sigint" /\ is_sigint \in {0, 1}))
  /\ [](Running => (sig_handler = "on_sigint" /\ proc # "sigint"))
  /\ [][/\ (Running /\ is_sigint' # is_sigint) => (is_sigint' = 1 /\ proc' = "run")
        /\ (sig_handler = "on_sigint" /\ is_sigint = 1) => is_sigint' = 1
        /\ sig_handler = "on_sigint" => sig_handler' = "on_sigint"]_vars

C18_Witness ==
  /\ Running
  /\ is_sigint = 1
  /\ proc = "run"
  /\ pc = "wait"

(***************************************************************************)
(* C19.  Whenever the thread is in the measurement loop, irq_fclk >=       *)
(* irq_fgen >= 1, so the conversion of line 370 never divides by zero; a   *)
(* device whose REG_FCLK reads 0 is rejected by the arming step and never  *)
(* reaches the loop.                                                       *)
(***************************************************************************)
C19_ClockNonzeroInLoop ==
  /\ InLoop =>
       /\ Lt32(Zero32, cmd.irq_fgen)
       /\ ~Lt32(irq_fclk, cmd.irq_fgen)
       /\ irq_fclk # Zero32
       /\ proc # "sigfpe"
  /\ (\E i \in DOMAIN io_log : IsFclkRead(io_log[i]) /\ io_log[i][4] = Zero32) =>
       /\ ~Armed
       /\ ~InLoop /\ pc # "arm"
       /\ n_waits = 0 /\ sample_reads = 0

C19_Witness ==
  /\ pc = "skip_irq"
  /\ sample_reads >= 1
  /\ irq_fclk = cmd.irq_fgen
  /\ irq_fclk = U32(0, 1)

(***************************************************************************)
(* C20.  When the thread ends before the loop starts (SCHED_FIFO refused,  *)
(* a session not opened, REG_MAGIC mismatch, divider 0), the report        *)
(* printed by main() shows irq_count = 0, irq_missed = 0 and no bucket.    *)
(***************************************************************************)
C20_EarlyExitReportsZero ==
  (report # <<>> /\ EndedBeforeLoop) =>
    report[1] = [irq_count |-> 0, irq_missed |-> 0, buckets |-> EmptyHist]

====
